---- MODULE Spec2Model ----
(***************************************************************************)
(* Safety metrics processor (process_safety_metrics.py).                   *)
(*                                                                         *)
(* Units.  Coordinates are integers in millidegrees (33.70 deg = 33700),   *)
(* instants are integers in hours, so days_ago is kept in hours            *)
(* (90 days = 2160 h), and time weights are fixed-point numbers with       *)
(* denominator WScale.  Rates are exact fractions [n, d] with d > 0.       *)
(* Floating-point rounding of the source (np.arange drift, exp) is not     *)
(* modelled: arithmetic is exact.                                          *)
(***************************************************************************)
EXTENDS Integers, Sequences, FiniteSets, TLC

\* ---------------------------------------------------------------- bounds
\* longest list of raw records one fetch returns
MaxRecords == 2
\* most incidents of the one cell whose trend is studied
MaxTrendRecords == 2
\* largest local rate handed to the scorer, in hundredths
MaxLocalRate == 30
\* longest record list handed to process_crime_data on its own
MaxNormRecords == 2
\* longest record list of a run whose loops are taken step by step
MaxCalcRecords == 3
\* longest record list of a run whose cell loops are divided among workers
MaxWorkerRecords == 2
\* workers the cell loops are divided among
Workers == 2
\* longest record list of a run that looks at the time weights
MaxWeightRecords == 2
\* oldest incident of such a run, in steps of ten days
MaxAgeSteps == 45
\* most requests fetch_crime_data is followed through
MaxRequests == 6
\* hours the scheduler is followed through
MaxClock == 1500
\* longest run of the update job, in hours
MaxJobHours == 2

\* ------------------------------------------------------ program constants
LatMin == 33700
LatMax == 34830
LonMin == -118670
LonMax == -117650
\* grid step 0.01 degrees and the offset 0.005 of a cell's centre
Resolution == 10
HalfCell == 5
\* 90-day recent window in days and in hours, 180-day half-life in hours
RecentDays == 90
RecentWindow == 2160
DaysPerYear == 365
HalfLife == 4320
HoursPerDay == 24
\* expiry of a metric: 30 days
ExpiryHours == 720
\* upload batch size
batch_size == 50
\* fixed-point denominator of time weights
WScale == 1024

\* pandas missing values: NaT for dates, NaN for numbers
NaT == -1
NaN == -999999
\* the run's reference instant: day 400 at 12:00
Now == 9612

SAFETY_METRICS ==
  [ night   |-> [ crime_codes |-> {"210", "220", "230", "231", "235", "236",
                                   "250", "251", "761", "762", "763", "860"},
                  has_time_filter |-> TRUE ],
    vehicle |-> [ crime_codes |-> {"330", "331", "410", "420", "421", "440",
                                   "441", "442", "443", "444", "445"},
                  has_time_filter |-> FALSE ],
    child   |-> [ crime_codes |-> {"235", "236", "627", "760", "762", "922",
                                   "237", "812", "813", "814", "815"},
                  has_time_filter |-> FALSE ],
    transit |-> [ crime_codes |-> {"210", "220", "230", "231", "476", "946",
                                   "761", "762", "763", "475", "352"},
                  has_time_filter |-> FALSE ],
    women   |-> [ crime_codes |-> {"121", "122", "815", "820", "821", "236",
                                   "626", "627", "647", "860", "921", "922"},
                  has_time_filter |-> FALSE ] ]

\* iteration order of SAFETY_METRICS.items()
MetricOrder == <<"night", "vehicle", "child", "transit", "women">>

\* the 'night' lambda: 6 PM to 6 AM
time_filter(hour) == hour >= 18 \/ hour < 6

\* ---------------------------------------------------------------- helpers
\* pandas Series.between: inclusive at both ends, False for NaN
between(x, left, right) == x # NaN /\ left <= x /\ x <= right

\* pd.to_datetime(..., errors='coerce') on one raw field
to_datetime(raw) == IF raw.kind = "ts" THEN raw.val ELSE NaT

\* pd.to_numeric(..., errors='coerce') on one raw field
to_numeric(raw) == IF raw.kind = "num" THEN raw.val ELSE NaN

RECURSIVE SumSeq(_, _)
SumSeq(s, field) ==
  IF s = <<>> THEN 0 ELSE s[1][field] + SumSeq(Tail(s), field)

RECURSIVE MaxSeq(_, _)
MaxSeq(s, field) ==
  IF Len(s) = 1 THEN s[1][field]
  ELSE LET m == MaxSeq(Tail(s), field)
       IN  IF s[1][field] >= m THEN s[1][field] ELSE m

\* np.exp(-days_ago * ln 2 / 180) in fixed point: whole half-lives halve the
\* weight, the rest of the exponent goes through the exponential series
\* with denominator ExpScale; the result is rounded to denominator WScale
ExpScale == 16384
Ln2 == 11357
SeriesTerms == 8

RECURSIVE ExpSeries(_, _, _, _)
ExpSeries(x, n, term, total) ==
  IF n > SeriesTerms THEN total
  ELSE LET t == (term * x) \div (n * ExpScale)
       IN  ExpSeries(x, n + 1, t, IF n % 2 = 0 THEN total + t ELSE total - t)

\* mutant: the weight falls on a straight line through 1 and 0.5
time_weight_Linear(hours_ago) ==
  WScale - (hours_ago * WScale) \div (2 * HalfLife)

time_weight(hours_ago) ==
  LET x == ((hours_ago % HalfLife) * Ln2) \div HalfLife
      e == ExpSeries(x, 1, ExpScale, ExpScale)
      d == (ExpScale \div WScale) * 2^(hours_ago \div HalfLife)
  IN  (e + d \div 2) \div d

\* ------------------------------------------------------ process_crime_data
ParseDates(crime_data) ==
  [i \in 1..Len(crime_data) |->
     [date_occ |-> to_datetime(crime_data[i].date_occ),
      lat_raw  |-> crime_data[i].lat,
      lon_raw  |-> crime_data[i].lon,
      crm_cd   |-> crime_data[i].crm_cd]]

invalid_dates(crime_data) ==
  Len(SelectSeq(ParseDates(crime_data), LAMBDA r : r.date_occ = NaT))

future_dates(crime_data) ==
  Len(SelectSeq(ParseDates(crime_data),
                LAMBDA r : r.date_occ # NaT /\ r.date_occ > Now))

\* mutant: an incident dated exactly now is dropped
ValidDates_Strict(crime_data) ==
  SelectSeq(ParseDates(crime_data),
            LAMBDA r : r.date_occ # NaT /\ r.date_occ < Now)

ValidDates(crime_data) ==
  SelectSeq(ParseDates(crime_data),
            LAMBDA r : r.date_occ # NaT /\ r.date_occ <= Now)

WithTimeFields(crime_data) ==
  LET s == ValidDates(crime_data)
  IN  [i \in 1..Len(s) |->
        [date_occ    |-> s[i].date_occ,
         hour        |-> s[i].date_occ % HoursPerDay,
         days_ago    |-> Now - s[i].date_occ,
         time_weight |-> time_weight(Now - s[i].date_occ),
         lat         |-> to_numeric(s[i].lat_raw),
         lon         |-> to_numeric(s[i].lon_raw),
         crm_cd      |-> s[i].crm_cd]]

invalid_coords(crime_data) ==
  Len(SelectSeq(WithTimeFields(crime_data),
                LAMBDA r : r.lat = NaN \/ r.lon = NaN))

\* mutant: the longitude test is left out
InBounds_LatOnly(r) == between(r.lat, LatMin, LatMax)

InBounds(r) ==
  between(r.lat, LatMin, LatMax) /\ between(r.lon, LonMin, LonMax)

process_crime_data(crime_data) ==
  SelectSeq(WithTimeFields(crime_data), InBounds)

\* ------------------------------------------------ calculate_safety_metrics
\* np.arange(start, stop, 0.01): start, start + 0.01, ... below stop
lats == {LatMin + i * Resolution : i \in 0..((LatMax - LatMin - 1) \div Resolution)}
lons == {LonMin + i * Resolution : i \in 0..((LonMax - LonMin - 1) \div Resolution)}

\* mutant: the time-of-day filter is never applied
OfType_NoTimeFilter(records, metric_type) ==
  SelectSeq(records,
    LAMBDA r : r.crm_cd \in SAFETY_METRICS[metric_type].crime_codes)

\* records counted for a metric: code in the metric's list and, for a metric
\* with a time filter, hour accepted by it
OfType(records, metric_type) ==
  LET config == SAFETY_METRICS[metric_type]
  IN  SelectSeq(records,
        LAMBDA r : /\ r.crm_cd \in config.crime_codes
                   /\ (config.has_time_filter => time_filter(r.hour)))

\* mutant: incidents are counted without their time weights
citywide_rates_Unweighted(df) ==
  [metric_type \in DOMAIN SAFETY_METRICS |->
     IF Len(df) > 0
     THEN [n |-> Len(OfType(df, metric_type)) * WScale,
           d |-> Len(df) * WScale]
     ELSE [n |-> 0, d |-> 1]]

\* mutant: the baseline counts only the incidents of the last 90 days
citywide_rates_RecentOnly(df) ==
  [metric_type \in DOMAIN SAFETY_METRICS |->
     IF Len(df) > 0
     THEN [n |-> SumSeq(SelectSeq(OfType(df, metric_type),
                                  LAMBDA r : r.days_ago <= RecentWindow),
                        "time_weight"),
           d |-> SumSeq(df, "time_weight")]
     ELSE [n |-> 0, d |-> 1]]

citywide_rates(df) ==
  [metric_type \in DOMAIN SAFETY_METRICS |->
     IF Len(df) > 0
     THEN [n |-> SumSeq(OfType(df, metric_type), "time_weight"),
           d |-> SumSeq(df, "time_weight")]
     ELSE [n |-> 0, d |-> 1]]

\* the mask of one grid cell
InCell(r, lat, lon) ==
  /\ between(r.lat, lat, lat + Resolution)
  /\ between(r.lon, lon, lon + Resolution)

grid_crimes(df, lat, lon) == SelectSeq(df, LAMBDA r : InCell(r, lat, lon))

\* mutant: the weighted sum is divided by the number of the cell's records
local_weighted_rate_PerRecord(crimes, cell_crimes) ==
  [n |-> SumSeq(crimes, "time_weight"), d |-> Len(cell_crimes) * WScale]

local_weighted_rate(crimes, cell_crimes) ==
  [n |-> SumSeq(crimes, "time_weight"), d |-> SumSeq(cell_crimes, "time_weight")]

\* mutant: a zero citywide rate gives relative rate 0
relative_rate_ZeroFallback(local, citywide) ==
  IF citywide.n > 0
  THEN [n |-> local.n * citywide.d, d |-> local.d * citywide.n]
  ELSE [n |-> 0, d |-> 1]

relative_rate(local, citywide) ==
  IF citywide.n > 0
  THEN [n |-> local.n * citywide.d, d |-> local.d * citywide.n]
  ELSE [n |-> 1, d |-> 1]

\* a fraction compared with the decimal tenths / 10
LeqTenths(rate, tenths) == rate.n * 10 <= tenths * rate.d

\* mutant: the two middle scores are exchanged
score_MiddleSwapped(rate) ==
  IF LeqTenths(rate, 3) THEN 8
  ELSE IF LeqTenths(rate, 7) THEN 4
  ELSE IF LeqTenths(rate, 15) THEN 6
  ELSE 2

\* mutant: thresholds compared with < instead of <=
score_Strict(rate) ==
  IF rate.n * 10 < 3 * rate.d THEN 8
  ELSE IF rate.n * 10 < 7 * rate.d THEN 6
  ELSE IF rate.n * 10 < 15 * rate.d THEN 4
  ELSE 2

score(rate) ==
  IF LeqTenths(rate, 3) THEN 8
  ELSE IF LeqTenths(rate, 7) THEN 6
  ELSE IF LeqTenths(rate, 15) THEN 4
  ELSE 2

risk_level(rate) ==
  IF LeqTenths(rate, 3) THEN "Low risk"
  ELSE IF LeqTenths(rate, 7) THEN "Medium risk"
  ELSE IF LeqTenths(rate, 15) THEN "High risk"
  ELSE "Maximum risk"

\* mutant: every incident counts as recent, whatever its age
recent_crimes_NoWindow(crimes) == Len(crimes)

recent_crimes(crimes) ==
  Len(SelectSeq(crimes, LAMBDA r : r.days_ago <= RecentWindow))

\* crimes['days_ago'].max() or 1, in hours: only a maximum of exactly 0 is
\* replaced by one day
days_covered(crimes) ==
  LET m == MaxSeq(crimes, "days_ago")
  IN  IF m = 0 THEN HoursPerDay ELSE m

\* recent_crimes / 90 * 365 if recent_crimes > 0 else 0, per year
recent_rate(crimes) ==
  IF recent_crimes(crimes) > 0
  THEN [n |-> recent_crimes(crimes) * DaysPerYear, d |-> RecentDays]
  ELSE [n |-> 0, d |-> 1]

\* total_crimes / days_covered * 365, per year (days_covered is in hours)
historical_rate(crimes) ==
  [n |-> Len(crimes) * DaysPerYear * HoursPerDay, d |-> days_covered(crimes)]

\* a > b * tenths / 10 and a < b * tenths / 10 on fractions
GtTimes(a, b, tenths) == a.n * b.d * 10 > b.n * tenths * a.d
LtTimes(a, b, tenths) == a.n * b.d * 10 < b.n * tenths * a.d

\* mutant: the two arrows are exchanged
trend_Inverted(crimes) ==
  IF GtTimes(recent_rate(crimes), historical_rate(crimes), 12) THEN "down"
  ELSE IF LtTimes(recent_rate(crimes), historical_rate(crimes), 8) THEN "up"
  ELSE "stable"

\* mutant: the 1.2x endpoint counts as increasing
trend_NonStrict(crimes) ==
  IF ~LtTimes(recent_rate(crimes), historical_rate(crimes), 12) THEN "up"
  ELSE IF LtTimes(recent_rate(crimes), historical_rate(crimes), 8) THEN "down"
  ELSE "stable"

trend(crimes) ==
  IF GtTimes(recent_rate(crimes), historical_rate(crimes), 12) THEN "up"
  ELSE IF LtTimes(recent_rate(crimes), historical_rate(crimes), 8) THEN "down"
  ELSE "stable"

\* cells the double loop does not skip, len(grid_crimes) > 0: those whose
\* latitude mask and longitude mask both select some record
cells_with_data(df) ==
  UNION { {lat \in lats : between(df[j].lat, lat, lat + Resolution)}
            \X {lon \in lons : between(df[j].lon, lon, lon + Resolution)}
          : j \in DOMAIN df }

\* the (cell, metric) iterations that reach metrics.append: <<lat, lon, k>>
\* with k the position of the metric in MetricOrder and len(crimes) > 0
Appended(df) ==
  UNION { { <<c[1], c[2], k>> : k \in
              {k \in DOMAIN MetricOrder :
                 Len(OfType(grid_crimes(df, c[1], c[2]), MetricOrder[k])) > 0} }
          : c \in cells_with_data(df) }

\* order of the iterations: for lat in lats, for lon in lons, for metric
Earlier(a, b) ==
  \/ a[1] < b[1]
  \/ a[1] = b[1] /\ a[2] < b[2]
  \/ a[1] = b[1] /\ a[2] = b[2] /\ a[3] < b[3]

\* the record appended for one (cell, metric) iteration, given the citywide
\* rate of the metric
\* mutant: the record carries the cell's lower bound
center_LowerBound(lower) == lower

\* lat + 0.005, lon + 0.005: the centre of the grid cell
center(lower) == lower + HalfCell

MetricRecordWith(df, citywide_rate, lat, lon, metric_type, id) ==
  LET cell_crimes == grid_crimes(df, lat, lon)
      crimes == OfType(cell_crimes, metric_type)
      rate == relative_rate(local_weighted_rate(crimes, cell_crimes),
                            citywide_rate)
  IN  [id            |-> id,
       latitude      |-> center(lat),
       longitude     |-> center(lon),
       metric_type   |-> metric_type,
       score         |-> score(rate),
       risk_level    |-> risk_level(rate),
       trend         |-> trend(crimes),
       total_crimes  |-> Len(crimes),
       recent_crimes |-> recent_crimes(crimes),
       created_at    |-> Now,
       expires_at    |-> Now + ExpiryHours]

MetricRecord(df, lat, lon, metric_type, id) ==
  MetricRecordWith(df, citywide_rates(df)[metric_type], lat, lon,
                   metric_type, id)

\* the list calculate_safety_metrics returns: one record per appending
\* iteration, in iteration order; ids last_id + 1, ... stand for fresh uuid4s
calculate_safety_metrics(df, last_id) ==
  LET app == Appended(df)
      at(p) == CHOOSE a \in app :
                 Cardinality({b \in app : Earlier(b, a)}) = p - 1
  IN  [p \in 1..Cardinality(app) |->
         MetricRecord(df, at(p)[1], at(p)[2], MetricOrder[at(p)[3]], last_id + p)]

\* ------------------------------------------------------------------ inputs
Ts(h) == [kind |-> "ts", val |-> h]
Num(x) == [kind |-> "num", val |-> x]
Txt == [kind |-> "text", val |-> 0]

Raw(date, lat, lon, code) ==
  [date_occ |-> date, lat |-> lat, lon |-> lon, crm_cd |-> code]

\* raw records the data source may supply: valid ones inside one cell, on a
\* grid line, on the corner of the bounding box, ones normalization must
\* drop (outside the box, unparsable, in the future), and a daytime
\* incident of a code only the night metric lists
RawRecords ==
  { Raw(Ts(Now - 12),   Num(33715), Num(-118665), "762"),
    Raw(Ts(Now - 8640), Num(33715), Num(-118665), "330"),
    Raw(Ts(Now),        Num(33710), Num(-118660), "236"),
    Raw(Ts(Now - 2160), Num(LatMax), Num(LonMax), "330"),
    Raw(Ts(Now - 12),   Num(33715), Num(-118665), "999"),
    Raw(Ts(Now - 12),   Num(LatMax + 10), Num(-118665), "330"),
    Raw(Ts(Now - 12),   Num(33715), Num(LonMin - 10), "762"),
    Raw(Txt,            Num(33715), Num(-118665), "330"),
    Raw(Ts(Now + 24),   Num(33715), Num(-118665), "330"),
    Raw(Ts(Now - 12),   Txt,        Num(-118665), "330"),
    Raw(Ts(Now),        Num(33715), Num(-118665), "250") }

SeqsUpTo(S, n) == UNION {[1..k -> S] : k \in 0..n}

\* one vehicle incident in each of 2 * batch_size + 1 cells of the first
\* grid row: a run whose upload takes three batches
ManyCells ==
  [j \in 1..(2 * batch_size + 1) |->
     Raw(Ts(Now - 2160), Num(LatMin + HalfCell),
         Num(LonMin + HalfCell + (j - 1) * Resolution), "330")]

Inputs == SeqsUpTo(RawRecords, MaxRecords) \cup {ManyCells}

\* what an earlier run left in the store
PreviousData ==
  << Raw(Ts(Now - 8640), Num(33715), Num(-118665), "330"),
     Raw(Ts(Now - 2160), Num(LatMax), Num(LonMax), "330") >>

Range(s) == {s[j] : j \in DOMAIN s}

PreviousRun == calculate_safety_metrics(process_crime_data(PreviousData), 0)

\* ------------------------------------------------------ upload_to_supabase
\* The table is a set of rows keyed by id.  A request that raises leaves the
\* table as it was; each request that succeeds is applied at once.

\* mutant: the delete filter keeps rows scored 4 or less
DeleteExisting_AboveFour(table) == {r \in table : ~(r.score > 4)}

\* supabase.table('safety_metrics').delete().gte('score', 0)
DeleteExisting(table) == {r \in table : ~(r.score >= 0)}

\* metrics[i:i+batch_size], i counted from 0
Batch(ms, i) ==
  SubSeq(ms, i + 1, IF i + batch_size < Len(ms) THEN i + batch_size ELSE Len(ms))

\* upsert keyed on the primary key id
Upsert(table, batch) ==
  {r \in table : \A j \in DOMAIN batch : batch[j].id # r.id} \cup Range(batch)

\* mutant: main never takes the early return
NoCrimeData_Never(list) == FALSE

\* main: `if not crime_data`
NoCrimeData(list) == Len(list) = 0

\* upload_to_supabase: `if not metrics`
\* mutant: an empty list is uploaded like any other
NoMetrics_Never(list) == FALSE

NoMetrics(list) == Len(list) = 0

\* mutant: the except branch reports success
ExceptResult_True == TRUE

\* what upload_to_supabase returns from its except branch
ExceptResult == FALSE

VARIABLES
  pc,          \* position in main / upload_to_supabase
  crime_data,  \* list returned by fetch_crime_data
  df,          \* DataFrame returned by process_crime_data
  metrics,     \* list returned by calculate_safety_metrics
  store,       \* rows of the safety_metrics table
  store0,      \* rows of the table when the run started
  i,           \* offset of the next upload batch
  success,     \* result of upload_to_supabase: "none", "true" or "false"
  report,      \* what main printed last
  calls,       \* functions main has called and store requests issued, in order
  last_id,     \* number of ids generated so far
  arg,         \* local and citywide rate handed to the scorer
  res,         \* what the scorer computed from arg
  counters,    \* discard counts process_crime_data printed
  citywide,    \* citywide_rates as built so far, in MetricOrder order
  metric_idx,  \* position of the baseline loop in MetricOrder
  cell_pos,    \* grid cell the cell loop processed last
  rate_log,    \* local, citywide and relative rate of each appended metric
  buffers,     \* private output buffer of each worker
  todo,        \* cells with data still to be processed
  source,      \* the records the API holds, in date_occ DESC order
  all_data,    \* fetch_crime_data: records accumulated so far
  offset,      \* fetch_crime_data: $offset of the next request
  attempt,     \* fetch_crime_data: position of the retry loop
  batch,       \* fetch_crime_data: last response parsed, or Unbound
  request_log, \* $offset of every request issued
  waits,       \* seconds of every time.sleep of fetch_crime_data
  failed_log,  \* offsets reported as failed after all attempts
  clock,       \* scheduler: wall clock in hours since the start
  next_run,    \* scheduler: next_run of the registered job, or NotScheduled
  job_starts,  \* scheduler: clock at the start of every job
  running      \* scheduler: jobs started and not yet returned

\* state of the loops of calculate_safety_metrics taken step by step
loopvars == <<citywide, metric_idx, cell_pos, rate_log, buffers, todo>>

\* state of fetch_crime_data taken request by request
fetchvars == <<source, all_data, offset, attempt, batch, request_log, waits,
               failed_log>>

\* state of run_scheduler
schedvars == <<clock, next_run, job_starts, running>>

vars == <<pc, crime_data, df, metrics, store, store0, i, success, report,
          calls, last_id, arg, res, counters, citywide, metric_idx, cell_pos,
          rate_log, buffers, todo, source, all_data, offset, attempt, batch,
          request_log, waits, failed_log, clock, next_run, job_starts,
          running>>

\* batch before the first response has been parsed
Unbound == [bound |-> FALSE]

NotScheduled == -1

\* a run whose fetch_crime_data is taken as one step
FetchIdle ==
  /\ source = <<>>
  /\ all_data = <<>>
  /\ offset = 0
  /\ attempt = 0
  /\ batch = Unbound
  /\ request_log = <<>>
  /\ waits = <<>>
  /\ failed_log = <<>>

\* a run started by hand, not by run_scheduler
SchedIdle ==
  /\ clock = 0
  /\ next_run = NotScheduled
  /\ job_starts = <<>>
  /\ running = 0

NoCounters == [invalid_dates |-> 0, future_dates |-> 0, invalid_coords |-> 0]

\* the loop state of a run whose calculate_safety_metrics is taken as one step
LoopIdle ==
  /\ citywide = <<>>
  /\ metric_idx = 1
  /\ cell_pos = <<LatMin, LonMin - Resolution>>
  /\ rate_log = <<>>
  /\ buffers = <<>>
  /\ todo = {}

Init ==
  /\ pc = "fetch"
  /\ crime_data = <<>>
  /\ df = <<>>
  /\ metrics = <<>>
  /\ store \in {{}, Range(PreviousRun)}
  /\ store0 = store
  /\ i = 0
  /\ success = "none"
  /\ report = "none"
  /\ calls = <<>>
  /\ last_id = Len(PreviousRun)
  /\ arg = <<>>
  /\ res = <<>>
  /\ counters = NoCounters
  /\ LoopIdle
  /\ FetchIdle
  /\ SchedIdle

\* main: crime_data = fetch_crime_data()
Fetch ==
  /\ pc = "fetch"
  /\ crime_data' \in Inputs
  /\ pc' = "fetched"
  /\ UNCHANGED <<df, metrics, store, store0, i, success, report, calls, last_id>>
  /\ UNCHANGED <<arg, res, counters, loopvars>>
  /\ UNCHANGED <<fetchvars, schedvars>>

\* main: if not crime_data: print(...); return
MainNoData ==
  /\ pc = "fetched"
  /\ NoCrimeData(crime_data)
  /\ report' = "No crime data available. Exiting."
  /\ pc' = "done"
  /\ UNCHANGED <<crime_data, df, metrics, store, store0, i, success, calls, last_id>>
  /\ UNCHANGED <<arg, res, counters, loopvars>>
  /\ UNCHANGED <<fetchvars, schedvars>>

\* main: df = process_crime_data(crime_data)
Process ==
  /\ pc = "fetched"
  /\ ~NoCrimeData(crime_data)
  /\ df' = process_crime_data(crime_data)
  /\ counters' = [invalid_dates  |-> invalid_dates(crime_data),
                  future_dates   |-> future_dates(crime_data),
                  invalid_coords |-> invalid_coords(crime_data)]
  /\ calls' = Append(calls, "process_crime_data")
  /\ pc' = "calculate"
  /\ UNCHANGED <<crime_data, metrics, store, store0, i, success, report, last_id>>
  /\ UNCHANGED <<arg, res, loopvars>>
  /\ UNCHANGED <<fetchvars, schedvars>>

\* main: metrics = calculate_safety_metrics(df)
Calculate ==
  /\ pc = "calculate"
  /\ metrics' = calculate_safety_metrics(df, last_id)
  /\ last_id' = last_id + Len(metrics')
  /\ calls' = Append(calls, "calculate_safety_metrics")
  /\ pc' = "upload"
  /\ UNCHANGED <<crime_data, df, store, store0, i, success, report>>
  /\ UNCHANGED <<arg, res, counters, loopvars>>
  /\ UNCHANGED <<fetchvars, schedvars>>

\* upload_to_supabase: if not metrics: return False
UploadNoMetrics ==
  /\ pc = "upload"
  /\ NoMetrics(metrics)
  /\ success' = "false"
  /\ calls' = Append(calls, "upload_to_supabase")
  /\ pc' = "report"
  /\ UNCHANGED <<crime_data, df, metrics, store, store0, i, report, last_id>>
  /\ UNCHANGED <<arg, res, counters, loopvars>>
  /\ UNCHANGED <<fetchvars, schedvars>>

\* upload_to_supabase: the delete request succeeds
UploadDelete ==
  /\ pc = "upload"
  /\ ~NoMetrics(metrics)
  /\ store' = DeleteExisting(store)
  /\ i' = 0
  /\ calls' = calls \o <<"upload_to_supabase", "delete">>
  /\ pc' = "upsert"
  /\ UNCHANGED <<crime_data, df, metrics, store0, success, report, last_id>>
  /\ UNCHANGED <<arg, res, counters, loopvars>>
  /\ UNCHANGED <<fetchvars, schedvars>>

\* upload_to_supabase: the delete request raises; except: return False
UploadDeleteRaises ==
  /\ pc = "upload"
  /\ ~NoMetrics(metrics)
  /\ calls' = calls \o <<"upload_to_supabase", "delete raised">>
  /\ success' = IF ExceptResult THEN "true" ELSE "false"
  /\ pc' = "report"
  /\ UNCHANGED <<crime_data, df, metrics, store, store0, i, report, last_id>>
  /\ UNCHANGED <<arg, res, counters, loopvars>>
  /\ UNCHANGED <<fetchvars, schedvars>>

\* upload_to_supabase: one batch is upserted
UploadUpsert ==
  /\ pc = "upsert"
  /\ i < Len(metrics)
  /\ store' = Upsert(store, Batch(metrics, i))
  /\ i' = i + batch_size
  /\ calls' = Append(calls, "upsert")
  /\ UNCHANGED <<pc, crime_data, df, metrics, store0, success, report, last_id>>
  /\ UNCHANGED <<arg, res, counters, loopvars>>
  /\ UNCHANGED <<fetchvars, schedvars>>

\* upload_to_supabase: the upsert of one batch raises; except: return False
UploadUpsertRaises ==
  /\ pc = "upsert"
  /\ i < Len(metrics)
  /\ calls' = Append(calls, "upsert raised")
  /\ success' = IF ExceptResult THEN "true" ELSE "false"
  /\ pc' = "report"
  /\ UNCHANGED <<crime_data, df, metrics, store, store0, i, report, last_id>>
  /\ UNCHANGED <<arg, res, counters, loopvars>>
  /\ UNCHANGED <<fetchvars, schedvars>>

\* upload_to_supabase: every batch is in; return True
UploadReturnTrue ==
  /\ pc = "upsert"
  /\ i >= Len(metrics)
  /\ success' = "true"
  /\ pc' = "report"
  /\ UNCHANGED <<crime_data, df, metrics, store, store0, i, report, calls, last_id>>
  /\ UNCHANGED <<arg, res, counters, loopvars>>
  /\ UNCHANGED <<fetchvars, schedvars>>

\* main: if success: print(complete) else: print(error)
MainReport ==
  /\ pc = "report"
  /\ report' = IF success = "true"
               THEN "Safety metrics processing complete!"
               ELSE "Error uploading to Supabase."
  /\ pc' = "done"
  /\ UNCHANGED <<crime_data, df, metrics, store, store0, i, success, calls, last_id>>
  /\ UNCHANGED <<arg, res, counters, loopvars>>
  /\ UNCHANGED <<fetchvars, schedvars>>

Next ==
  \/ Fetch
  \/ MainNoData
  \/ Process
  \/ Calculate
  \/ UploadNoMetrics
  \/ UploadDelete
  \/ UploadDeleteRaises
  \/ UploadUpsert
  \/ UploadUpsertRaises
  \/ UploadReturnTrue
  \/ MainReport

Spec == Init /\ [][Next]_vars

\* ------------------------------------------- the scorer on its own (296-312)
\* relative rate, score and risk level of one (cell, metric) pair
ScoreStep ==
  /\ pc = "score"
  /\ res' = [relative_rate |-> relative_rate(arg.local, arg.citywide),
             score         |-> score(relative_rate(arg.local, arg.citywide)),
             risk_level    |-> risk_level(relative_rate(arg.local, arg.citywide))]
  /\ pc' = "scored"
  /\ UNCHANGED <<crime_data, df, metrics, store, store0, i, success, report,
                 calls, last_id, arg>>
  /\ UNCHANGED <<counters, loopvars>>
  /\ UNCHANGED <<fetchvars, schedvars>>

\* rates in hundredths: local rates 0.00 .. MaxLocalRate/100, citywide
\* baselines 0, 0.10 and 0.20
ScoreArgs ==
  [local    : {[n |-> k, d |-> 100] : k \in 0..MaxLocalRate},
   citywide : {[n |-> c, d |-> 100] : c \in {0, 10, 20}}]

InitScore ==
  /\ pc = "score"
  /\ crime_data = <<>>
  /\ df = <<>>
  /\ metrics = <<>>
  /\ store = {}
  /\ store0 = {}
  /\ i = 0
  /\ success = "none"
  /\ report = "none"
  /\ calls = <<>>
  /\ last_id = 0
  /\ arg \in ScoreArgs
  /\ res = <<>>
  /\ counters = NoCounters
  /\ LoopIdle
  /\ FetchIdle
  /\ SchedIdle

NextScore == ScoreStep

SpecScore == InitScore /\ [][NextScore]_vars

\* ------------------- normalization and metrics of one cell's incident ages
\* vehicle incidents of one cell, aged 0 h, 12 h, and 72, 90, 90.5, 108, 216
\* and 360 days
TrendRecords ==
  { Raw(Ts(Now - age), Num(33715), Num(-118665), "330") :
      age \in {0, 12, 1728, 2160, 2172, 2592, 5184, 8640} }

InitTrend ==
  /\ pc = "fetched"
  /\ crime_data \in SeqsUpTo(TrendRecords, MaxTrendRecords) \ {<<>>}
  /\ df = <<>>
  /\ metrics = <<>>
  /\ store = {}
  /\ store0 = {}
  /\ i = 0
  /\ success = "none"
  /\ report = "none"
  /\ calls = <<>>
  /\ last_id = 0
  /\ arg = <<>>
  /\ res = <<>>
  /\ counters = NoCounters
  /\ LoopIdle
  /\ FetchIdle
  /\ SchedIdle

NextTrend ==
  \/ Process
  \/ Calculate

SpecTrend == InitTrend /\ [][NextTrend]_vars

\* ------------------------------- process_crime_data on its own (181-226)
\* a record of the API that carries no crm_cd: the column holds NaN for it,
\* which is in no crime_codes list
NullCode == ""

\* unparsable, one hour ahead of now, exactly now, twelve hours ago
NormDates == {Txt, Ts(Now + 1), Ts(Now), Ts(Now - 12)}

\* unparsable latitude or longitude, one millidegree outside each side of
\* the box, two opposite corners of the box, and downtown
NormCoords ==
  { <<Txt, Num(-118243)>>, <<Num(34052), Txt>>,
    <<Num(LatMin - 1), Num(-118243)>>, <<Num(LatMax + 1), Num(-118243)>>,
    <<Num(34052), Num(LonMin - 1)>>, <<Num(34052), Num(LonMax + 1)>>,
    <<Num(LatMin), Num(LonMin)>>, <<Num(LatMax), Num(LonMax)>>,
    <<Num(34052), Num(-118243)>> }

NormRecords ==
  { Raw(d, c[1], c[2], "330") : d \in NormDates, c \in NormCoords }
    \cup { Raw(Ts(Now - 12), Num(34052), Num(-118243), NullCode) }

InitNormalize ==
  /\ pc = "fetched"
  /\ crime_data \in SeqsUpTo(NormRecords, MaxNormRecords) \ {<<>>}
  /\ df = <<>>
  /\ metrics = <<>>
  /\ store = {}
  /\ store0 = {}
  /\ i = 0
  /\ success = "none"
  /\ report = "none"
  /\ calls = <<>>
  /\ last_id = 0
  /\ arg = <<>>
  /\ res = <<>>
  /\ counters = NoCounters
  /\ LoopIdle
  /\ FetchIdle
  /\ SchedIdle

NextNormalize == Process

SpecNormalize == InitNormalize /\ [][NextNormalize]_vars

\* ------------------- calculate_safety_metrics loop by loop (228-359)
\* the metrics, in MetricOrder positions, that reach metrics.append in a cell
CellAppends(crimes_df, lat, lon) ==
  SelectSeq([k \in 1..Len(MetricOrder) |-> k],
            LAMBDA k : Len(OfType(grid_crimes(crimes_df, lat, lon), MetricOrder[k])) > 0)

\* mutant: a cell emits nothing once any other cell has emitted
CellRecords_FirstOnly(crimes_df, cw, lat, lon, first_id) ==
  IF first_id > last_id
  THEN <<>>
  ELSE LET ks == CellAppends(crimes_df, lat, lon)
       IN  [p \in 1..Len(ks) |->
              MetricRecordWith(crimes_df, cw[ks[p]], lat, lon, MetricOrder[ks[p]],
                               first_id + p)]

\* the body of the two for loops for one cell with data: the records it
\* appends, reading the citywide rates cw built by the first loop
CellRecords(crimes_df, cw, lat, lon, first_id) ==
  LET ks == CellAppends(crimes_df, lat, lon)
  IN  [p \in 1..Len(ks) |->
         MetricRecordWith(crimes_df, cw[ks[p]], lat, lon, MetricOrder[ks[p]],
                          first_id + p)]

\* local_weighted_rate, citywide rate and relative_rate of those iterations
CellRates(crimes_df, cw, lat, lon) ==
  LET ks == CellAppends(crimes_df, lat, lon)
      cell_crimes == grid_crimes(crimes_df, lat, lon)
      local(k) == local_weighted_rate(OfType(cell_crimes, MetricOrder[k]),
                                      cell_crimes)
  IN  [p \in 1..Len(ks) |->
         [lat         |-> lat,
          lon         |-> lon,
          metric_type |-> MetricOrder[ks[p]],
          local       |-> local(ks[p]),
          citywide    |-> cw[ks[p]],
          relative    |-> relative_rate(local(ks[p]), cw[ks[p]])]]

\* order of the cell loops: for lat in lats, for lon in lons
CellBefore(a, b) == a[1] < b[1] \/ (a[1] = b[1] /\ a[2] < b[2])

FirstCell(cells) == CHOOSE c \in cells : \A o \in cells : o = c \/ CellBefore(c, o)

\* mutant: the cell loops start one metric before the end of the first loop
BaselineComplete_Early(idx) == idx >= Len(MetricOrder)

\* the first loop has run for every entry of SAFETY_METRICS
BaselineComplete(idx) == idx > Len(MetricOrder)

\* one pass of the first loop: citywide_rates[metric_type] = ...
BaselineStep ==
  /\ pc = "calculate"
  /\ ~BaselineComplete(metric_idx)
  /\ metric_idx <= Len(MetricOrder)
  /\ citywide' = Append(citywide, citywide_rates(df)[MetricOrder[metric_idx]])
  /\ metric_idx' = metric_idx + 1
  /\ UNCHANGED <<pc, crime_data, df, metrics, store, store0, i, success,
                 report, calls, last_id>>
  /\ UNCHANGED <<arg, res, counters, cell_pos, rate_log, buffers, todo>>
  /\ UNCHANGED <<fetchvars, schedvars>>

\* the first loop is over: the cell loops begin; the cells whose mask
\* selects no record are passed over by 'continue'
StartCells ==
  /\ pc = "calculate"
  /\ BaselineComplete(metric_idx)
  /\ todo' = cells_with_data(df)
  /\ pc' = "cells"
  /\ UNCHANGED <<crime_data, df, metrics, store, store0, i, success, report,
                 calls, last_id>>
  /\ UNCHANGED <<arg, res, counters, citywide, metric_idx, cell_pos,
                 rate_log, buffers>>
  /\ UNCHANGED <<fetchvars, schedvars>>

\* the passes of the cell loops up to and including the next cell with data
CellStep ==
  /\ pc = "cells"
  /\ todo # {}
  /\ LET c == FirstCell(todo)
     IN  /\ metrics' = metrics \o CellRecords(df, citywide, c[1], c[2],
                                              last_id + Len(metrics))
         /\ rate_log' = rate_log \o CellRates(df, citywide, c[1], c[2])
         /\ cell_pos' = c
         /\ todo' = todo \ {c}
  /\ UNCHANGED <<pc, crime_data, df, store, store0, i, success, report,
                 calls, last_id>>
  /\ UNCHANGED <<arg, res, counters, citywide, metric_idx, buffers>>
  /\ UNCHANGED <<fetchvars, schedvars>>

\* return metrics
ReturnMetrics ==
  /\ pc = "cells"
  /\ todo = {}
  /\ last_id' = last_id + Len(metrics)
  /\ calls' = Append(calls, "calculate_safety_metrics")
  /\ pc' = "upload"
  /\ UNCHANGED <<crime_data, df, metrics, store, store0, i, success, report>>
  /\ UNCHANGED <<arg, res, counters, loopvars>>
  /\ UNCHANGED <<fetchvars, schedvars>>

\* records of one cell (night/child/transit, an old vehicle incident, one
\* of no metric), a vehicle incident on the grid line below that cell, one
\* on the far corner of the box, and one normalization drops
CalcRecords ==
  { Raw(Ts(Now - 12),   Num(33715), Num(-118665), "762"),
    Raw(Ts(Now - 8640), Num(33715), Num(-118665), "330"),
    Raw(Ts(Now - 12),   Num(33715), Num(-118665), "999"),
    Raw(Ts(Now),        Num(33710), Num(-118665), "330"),
    Raw(Ts(Now - 2160), Num(LatMax), Num(LonMax), "330"),
    Raw(Ts(Now - 12),   Num(LatMax + 10), Num(-118665), "330") }

InitCalc ==
  /\ pc = "fetched"
  /\ crime_data \in SeqsUpTo(CalcRecords, MaxCalcRecords) \ {<<>>}
  /\ df = <<>>
  /\ metrics = <<>>
  /\ store = {}
  /\ store0 = {}
  /\ i = 0
  /\ success = "none"
  /\ report = "none"
  /\ calls = <<>>
  /\ last_id = 0
  /\ arg = <<>>
  /\ res = <<>>
  /\ counters = NoCounters
  /\ LoopIdle
  /\ FetchIdle
  /\ SchedIdle

NextCalc ==
  \/ Process
  \/ BaselineStep
  \/ StartCells
  \/ CellStep
  \/ ReturnMetrics

SpecCalc == InitCalc /\ [][NextCalc]_vars

\* ------------- the cell loops divided among workers (spec section 5)
\* the cell loops begin with one empty private buffer per worker
StartWorkers ==
  /\ pc = "calculate"
  /\ BaselineComplete(metric_idx)
  /\ todo' = cells_with_data(df)
  /\ buffers' = [w \in 1..Workers |-> <<>>]
  /\ pc' = "workers"
  /\ UNCHANGED <<crime_data, df, metrics, store, store0, i, success, report,
                 calls, last_id>>
  /\ UNCHANGED <<arg, res, counters, citywide, metric_idx, cell_pos, rate_log>>
  /\ UNCHANGED <<fetchvars, schedvars>>

Emitted(bufs) == SumSeq([w \in DOMAIN bufs |-> [len |-> Len(bufs[w])]], "len")

\* some worker runs the loop body for some cell not yet processed and
\* appends to its own buffer
WorkerCell ==
  /\ pc = "workers"
  /\ \E c \in todo, w \in 1..Workers :
       /\ buffers' = [buffers EXCEPT ![w] =
                        @ \o CellRecords(df, citywide, c[1], c[2],
                                         last_id + Emitted(buffers))]
       /\ cell_pos' = c
       /\ todo' = todo \ {c}
  /\ UNCHANGED <<pc, crime_data, df, metrics, store, store0, i, success,
                 report, calls, last_id>>
  /\ UNCHANGED <<arg, res, counters, citywide, metric_idx, rate_log>>
  /\ UNCHANGED <<fetchvars, schedvars>>

RECURSIVE MergeBuffers(_)
MergeBuffers(bufs) ==
  IF bufs = <<>> THEN <<>> ELSE Head(bufs) \o MergeBuffers(Tail(bufs))

\* every cell is processed: the buffers are merged into the returned list
Merge ==
  /\ pc = "workers"
  /\ todo = {}
  /\ metrics' = MergeBuffers(buffers)
  /\ last_id' = last_id + Len(metrics')
  /\ calls' = Append(calls, "calculate_safety_metrics")
  /\ pc' = "upload"
  /\ UNCHANGED <<crime_data, df, store, store0, i, success, report>>
  /\ UNCHANGED <<arg, res, counters, loopvars>>
  /\ UNCHANGED <<fetchvars, schedvars>>

NextWorkers ==
  \/ Process
  \/ BaselineStep
  \/ StartWorkers
  \/ WorkerCell
  \/ Merge

InitWorkers ==
  /\ pc = "fetched"
  /\ crime_data \in SeqsUpTo(CalcRecords, MaxWorkerRecords) \ {<<>>}
  /\ df = <<>>
  /\ metrics = <<>>
  /\ store = {}
  /\ store0 = {}
  /\ i = 0
  /\ success = "none"
  /\ report = "none"
  /\ calls = <<>>
  /\ last_id = 0
  /\ arg = <<>>
  /\ res = <<>>
  /\ counters = NoCounters
  /\ LoopIdle
  /\ FetchIdle
  /\ SchedIdle

SpecWorkers == InitWorkers /\ [][NextWorkers]_vars

\* ------------- the time weights of process_crime_data (198-203)
AgeStep == 240

\* incidents of one cell aged 0, 10, 20, ... days
WeightRecords ==
  { Raw(Ts(Now - a * AgeStep), Num(33715), Num(-118665), "330") :
      a \in 0..MaxAgeSteps }

InitWeight ==
  /\ pc = "fetched"
  /\ crime_data \in SeqsUpTo(WeightRecords, MaxWeightRecords) \ {<<>>}
  /\ df = <<>>
  /\ metrics = <<>>
  /\ store = {}
  /\ store0 = {}
  /\ i = 0
  /\ success = "none"
  /\ report = "none"
  /\ calls = <<>>
  /\ last_id = 0
  /\ arg = <<>>
  /\ res = <<>>
  /\ counters = NoCounters
  /\ LoopIdle
  /\ FetchIdle
  /\ SchedIdle

NextWeight == Process

SpecWeight == InitWeight /\ [][NextWeight]_vars

\* ------------------- fetch_crime_data request by request (62-139)
limit == 1000
retries == 3
BackoffStep == 5

\* what the API answers to $limit, $offset, $order: the records of the
\* source from position offset + 1 on, at most limit of them
Page(src, off) ==
  SubSeq(src, off + 1, IF off + limit < Len(src) THEN off + limit ELSE Len(src))

\* mutant: offset = batch_size instead of offset += batch_size
NextOffset_Assigned(off, size) == size

\* offset += batch_size
NextOffset(off, size) == off + size

\* if not batch or batch_size < limit
LoopEnds(b) == b.records = <<>> \/ Len(b.records) < limit

\* wait_time = (attempt + 1) * 5
wait_time(att) == (att + 1) * BackoffStep

\* the request succeeds and the batch is empty or well-formed
RequestOk ==
  /\ pc = "request"
  /\ Len(request_log) < MaxRequests
  /\ LET page == Page(source, offset)
     IN  /\ request_log' = Append(request_log, offset)
         /\ batch' = [bound |-> TRUE, records |-> page, valid |-> TRUE]
         /\ all_data' = all_data \o page
         /\ offset' = IF Len(page) > 0 /\ ~(Len(page) < limit)
                      THEN NextOffset(offset, Len(page))
                      ELSE offset
  /\ pc' = "loop_test"
  /\ UNCHANGED <<crime_data, df, metrics, store, store0, i, success, report,
                 calls, last_id, arg, res, counters, loopvars, schedvars>>
  /\ UNCHANGED <<source, attempt, waits, failed_log>>

\* the request succeeds but some record of the batch is not a dict with
\* date_occ: continue with the next attempt, or leave the retry loop
RequestInvalid ==
  /\ pc = "request"
  /\ Len(request_log) < MaxRequests
  /\ Len(Page(source, offset)) > 0
  /\ request_log' = Append(request_log, offset)
  /\ batch' = [bound |-> TRUE, records |-> Page(source, offset), valid |-> FALSE]
  /\ IF attempt < retries - 1
     THEN attempt' = attempt + 1 /\ pc' = pc
     ELSE attempt' = attempt /\ pc' = "loop_test"
  /\ UNCHANGED <<crime_data, df, metrics, store, store0, i, success, report,
                 calls, last_id, arg, res, counters, loopvars, schedvars>>
  /\ UNCHANGED <<source, all_data, offset, waits, failed_log>>

\* the request times out or raises another RequestException (both except
\* clauses do the same): sleep and retry, or report the failure and break
RequestRaises ==
  /\ pc = "request"
  /\ Len(request_log) < MaxRequests
  /\ request_log' = Append(request_log, offset)
  /\ IF attempt < retries - 1
     THEN /\ waits' = Append(waits, wait_time(attempt))
          /\ attempt' = attempt + 1
          /\ UNCHANGED <<pc, failed_log>>
     ELSE /\ failed_log' = Append(failed_log, offset)
          /\ pc' = "loop_test"
          /\ UNCHANGED <<attempt, waits>>
  /\ UNCHANGED <<crime_data, df, metrics, store, store0, i, success, report,
                 calls, last_id, arg, res, counters, loopvars, schedvars>>
  /\ UNCHANGED <<source, all_data, offset, batch>>

\* line 136 with batch never assigned: UnboundLocalError leaves
\* fetch_crime_data and main
LoopTestRaises ==
  /\ pc = "loop_test"
  /\ batch = Unbound
  /\ pc' = "raised"
  /\ UNCHANGED <<crime_data, df, metrics, store, store0, i, success, report,
                 calls, last_id, arg, res, counters, loopvars, schedvars>>
  /\ UNCHANGED fetchvars

\* line 136 true: break, return all_data
LoopTestBreak ==
  /\ pc = "loop_test"
  /\ batch # Unbound
  /\ LoopEnds(batch)
  /\ crime_data' = all_data
  /\ pc' = "fetched"
  /\ UNCHANGED <<df, metrics, store, store0, i, success, report,
                 calls, last_id, arg, res, counters, loopvars, schedvars>>
  /\ UNCHANGED fetchvars

\* line 136 false: next pass of while True
LoopTestContinue ==
  /\ pc = "loop_test"
  /\ batch # Unbound
  /\ ~LoopEnds(batch)
  /\ attempt' = 0
  /\ pc' = "request"
  /\ UNCHANGED <<crime_data, df, metrics, store, store0, i, success, report,
                 calls, last_id, arg, res, counters, loopvars, schedvars>>
  /\ UNCHANGED <<source, all_data, offset, batch, request_log, waits, failed_log>>

\* sources of no record, one record, and around one and two full pages
SourceSizes == {0, 1, limit, limit + 1, 2 * limit, 2 * limit + 1}

InitFetch ==
  /\ pc = "request"
  /\ crime_data = <<>>
  /\ df = <<>>
  /\ metrics = <<>>
  /\ store = {}
  /\ store0 = {}
  /\ i = 0
  /\ success = "none"
  /\ report = "none"
  /\ calls = <<>>
  /\ last_id = 0
  /\ arg = <<>>
  /\ res = <<>>
  /\ counters = NoCounters
  /\ LoopIdle
  /\ source \in {[j \in 1..n |-> j] : n \in SourceSizes}
  /\ all_data = <<>>
  /\ offset = 0
  /\ attempt = 0
  /\ batch = Unbound
  /\ request_log = <<>>
  /\ waits = <<>>
  /\ failed_log = <<>>
  /\ SchedIdle

NextFetch ==
  \/ RequestOk
  \/ RequestInvalid
  \/ RequestRaises
  \/ LoopTestRaises
  \/ LoopTestBreak
  \/ LoopTestContinue

SpecFetch == InitFetch /\ [][NextFetch]_vars

\* ------------------- run_scheduler (schedule_metrics_update.py, 9-23)
\* schedule.every(30).days
Interval == 30
\* time.sleep(3600), in hours
SleepHours == 1

\* mutant: the job is registered with every(30).hours
NextRunAfter_Hours(t) == t + Interval

\* next_run the schedule library sets when a job is registered or has run
NextRunAfter(t) == t + Interval * HoursPerDay

\* Job.should_run
Due(t, at) == at # NotScheduled /\ t >= at

\* job() called at line 16, before anything is scheduled
FirstJobStart ==
  /\ pc = "sched_start"
  /\ job_starts' = Append(job_starts, clock)
  /\ running' = running + 1
  /\ pc' = "first_job"
  /\ UNCHANGED <<crime_data, df, metrics, store, store0, i, success, report,
                 calls, last_id, arg, res, counters, loopvars, fetchvars>>
  /\ UNCHANGED <<clock, next_run>>

\* run_analysis() returns after some time
FirstJobEnd ==
  /\ pc = "first_job"
  /\ \E d \in 0..MaxJobHours : clock' = clock + d
  /\ running' = running - 1
  /\ pc' = "register"
  /\ UNCHANGED <<crime_data, df, metrics, store, store0, i, success, report,
                 calls, last_id, arg, res, counters, loopvars, fetchvars>>
  /\ UNCHANGED <<next_run, job_starts>>

\* run_analysis() raises: nothing catches it, run_scheduler ends
JobRaises ==
  /\ pc \in {"first_job", "job"}
  /\ running' = running - 1
  /\ pc' = "raised"
  /\ UNCHANGED <<crime_data, df, metrics, store, store0, i, success, report,
                 calls, last_id, arg, res, counters, loopvars, fetchvars>>
  /\ UNCHANGED <<clock, next_run, job_starts>>

\* schedule.every(30).days.do(job)
Register ==
  /\ pc = "register"
  /\ next_run' = NextRunAfter(clock)
  /\ pc' = "run_pending"
  /\ UNCHANGED <<crime_data, df, metrics, store, store0, i, success, report,
                 calls, last_id, arg, res, counters, loopvars, fetchvars>>
  /\ UNCHANGED <<clock, job_starts, running>>

\* schedule.run_pending() finds the job due and calls it
RunPendingDue ==
  /\ pc = "run_pending"
  /\ Due(clock, next_run)
  /\ job_starts' = Append(job_starts, clock)
  /\ running' = running + 1
  /\ pc' = "job"
  /\ UNCHANGED <<crime_data, df, metrics, store, store0, i, success, report,
                 calls, last_id, arg, res, counters, loopvars, fetchvars>>
  /\ UNCHANGED <<clock, next_run>>

\* the job returns to run_pending, which schedules its next run
JobEnd ==
  /\ pc = "job"
  /\ \E d \in 0..MaxJobHours :
       /\ clock' = clock + d
       /\ next_run' = NextRunAfter(clock + d)
  /\ running' = running - 1
  /\ pc' = "sleep"
  /\ UNCHANGED <<crime_data, df, metrics, store, store0, i, success, report,
                 calls, last_id, arg, res, counters, loopvars, fetchvars>>
  /\ UNCHANGED job_starts

\* schedule.run_pending() finds nothing due
RunPendingIdle ==
  /\ pc = "run_pending"
  /\ ~Due(clock, next_run)
  /\ pc' = "sleep"
  /\ UNCHANGED <<crime_data, df, metrics, store, store0, i, success, report,
                 calls, last_id, arg, res, counters, loopvars, fetchvars>>
  /\ UNCHANGED schedvars

\* time.sleep(3600)
Sleep ==
  /\ pc = "sleep"
  /\ clock < MaxClock
  /\ clock' = clock + SleepHours
  /\ pc' = "run_pending"
  /\ UNCHANGED <<crime_data, df, metrics, store, store0, i, success, report,
                 calls, last_id, arg, res, counters, loopvars, fetchvars>>
  /\ UNCHANGED <<next_run, job_starts, running>>

InitScheduler ==
  /\ pc = "sched_start"
  /\ crime_data = <<>>
  /\ df = <<>>
  /\ metrics = <<>>
  /\ store = {}
  /\ store0 = {}
  /\ i = 0
  /\ success = "none"
  /\ report = "none"
  /\ calls = <<>>
  /\ last_id = 0
  /\ arg = <<>>
  /\ res = <<>>
  /\ counters = NoCounters
  /\ LoopIdle
  /\ FetchIdle
  /\ SchedIdle

NextScheduler ==
  \/ FirstJobStart
  \/ FirstJobEnd
  \/ JobRaises
  \/ Register
  \/ RunPendingDue
  \/ JobEnd
  \/ RunPendingIdle
  \/ Sleep

SpecScheduler == InitScheduler /\ [][NextScheduler]_vars

\* ================================================================= claims
Complete == "Safety metrics processing complete!"

\* the store requests issued so far, in order
StoreRequests ==
  SelectSeq(calls, LAMBDA c : c \in {"delete", "delete raised",
                                     "upsert", "upsert raised"})

\* a record of df counts for a metric (stated from the metric table)
Qualifies(r, m) ==
  /\ r.crm_cd \in SAFETY_METRICS[m].crime_codes
  /\ (m = "night" => (r.hour >= 18 \/ r.hour < 6))

\* the records of df in the cell with lower bounds lat, lon that count for m
PairCrimes(lat, lon, m) ==
  SelectSeq(df, LAMBDA r : InCell(r, lat, lon) /\ Qualifies(r, m))

\* C1: once upload_to_supabase has returned, whichever request failed, the
\* store holds either exactly the rows it held before the run or exactly
\* the rows of the new run, never nothing or a strict part of the new rows.
C1_NeverPartialOverwrite ==
  (pc \in {"report", "done"} /\ success # "none")
    => (store = store0 \/ store = Range(metrics))

\* C2: after upload_to_supabase returned True the store holds exactly the
\* metrics of this run: no row of an earlier run remains.
C2_FullReplace ==
  success = "true" => store = Range(metrics)

\* C2 witness: a successful upload over a store that held a row of a cell
\* for which this run has no metric
C2_Witness ==
  /\ success = "true"
  /\ \E old \in store0 : \A j \in DOMAIN metrics :
        metrics[j].latitude # old.latitude \/ metrics[j].longitude # old.longitude

\* C3: with no records supplied main calls neither process_crime_data nor
\* calculate_safety_metrics nor upload_to_supabase, issues no store request,
\* leaves the store as it was and emits no metric.
C3_NoRecordsNoWork ==
  crime_data = <<>> =>
    /\ calls = <<>>
    /\ store = store0
    /\ metrics = <<>>
    /\ df = <<>>
    /\ success = "none"
    /\ report # Complete

\* C3 witness: main has returned from the empty fetch over a non-empty store
C3_Witness ==
  /\ pc = "done"
  /\ crime_data = <<>>
  /\ report = "No crime data available. Exiting."
  /\ store0 # {}

\* C4: if the delete or an upsert raised, upload_to_supabase returned False
\* and main does not report completion; it returned True only after the
\* delete and every batch upsert succeeded.
C4_PersistenceFailureSurfaced ==
  LET nbatches == (Len(metrics) + batch_size - 1) \div batch_size
      raised == \E k \in DOMAIN calls : calls[k] \in {"delete raised", "upsert raised"}
  IN  /\ (raised => pc \in {"report", "done"} /\ success = "false" /\ report # Complete)
      /\ (success = "true" =>
            StoreRequests = <<"delete">> \o [k \in 1..nbatches |-> "upsert"])
      /\ (report = Complete => success = "true")
      /\ (pc = "done" /\ success = "false" => report = "Error uploading to Supabase.")

\* C4 witness: an upsert after the first batch raised and main reported the error
C4_Witness ==
  /\ pc = "done"
  /\ \E k \in DOMAIN calls : calls[k] = "upsert raised"
  /\ \E k \in DOMAIN calls : calls[k] = "upsert"
  /\ report = "Error uploading to Supabase."

\* C5: for every grid cell and metric, calculate_safety_metrics emitted a
\* record for the pair iff some record of the cell qualifies for the metric:
\* the emitted (cell, metric) pairs are exactly the pairs of the grid with a
\* qualifying record.
C5_MetricIffQualifying ==
  pc = "upload" =>
    LET occupied == {c \in lats \X lons :
                       \E k \in DOMAIN df : InCell(df[k], c[1], c[2])}
        qualifying == {q \in occupied \X DOMAIN SAFETY_METRICS :
                         \E k \in DOMAIN df :
                           /\ InCell(df[k], q[1][1], q[1][2])
                           /\ Qualifies(df[k], q[2])}
    IN  { <<metrics[j].latitude - HalfCell, metrics[j].longitude - HalfCell,
            metrics[j].metric_type>> : j \in DOMAIN metrics }
          = { <<q[1][1], q[1][2], q[2]>> : q \in qualifying }

\* C5 witness: a cell with a child metric and no night metric, holding a
\* record with a night code that fails the time filter
C5_Witness ==
  /\ pc = "upload"
  /\ \E j \in DOMAIN metrics :
       /\ metrics[j].metric_type = "child"
       /\ \A k \in DOMAIN metrics :
            ~(/\ metrics[k].metric_type = "night"
              /\ metrics[k].latitude = metrics[j].latitude
              /\ metrics[k].longitude = metrics[j].longitude)
       /\ \E k \in DOMAIN df :
            /\ InCell(df[k], metrics[j].latitude - HalfCell,
                             metrics[j].longitude - HalfCell)
            /\ df[k].crm_cd \in SAFETY_METRICS["night"].crime_codes

\* C6: every surviving record is in the contents of exactly one grid cell,
\* the one whose lower bounds are its coordinates rounded down to the grid.
C6_ExactlyOneCell ==
  pc = "calculate" =>
    \A k \in DOMAIN df :
      {c \in lats \X lons : InCell(df[k], c[1], c[2])}
        = { << df[k].lat - ((df[k].lat - LatMin) % Resolution),
               df[k].lon - ((df[k].lon - LonMin) % Resolution) >> }

\* C7: a record outside the bounding box is in no cell and in no weighted
\* sum: df holds only records inside the box, and the citywide total weight
\* is the weight of the dated records inside the box.
C7_OutsideBoxExcluded ==
  pc \in {"calculate", "upload"} =>
    LET dated == WithTimeFields(crime_data)
        inside == SelectSeq(dated,
                    LAMBDA r : /\ r.lat # NaN /\ r.lon # NaN
                               /\ LatMin <= r.lat /\ r.lat <= LatMax
                               /\ LonMin <= r.lon /\ r.lon <= LonMax)
    IN  /\ \A k \in DOMAIN df :
             /\ LatMin <= df[k].lat /\ df[k].lat <= LatMax
             /\ LonMin <= df[k].lon /\ df[k].lon <= LonMax
        /\ Len(df) = Len(inside)
        /\ \A m \in DOMAIN SAFETY_METRICS :
             Len(df) > 0 => citywide_rates(df)[m].d = SumSeq(inside, "time_weight")
        /\ \A j \in DOMAIN metrics :
             /\ LatMin < metrics[j].latitude /\ metrics[j].latitude < LatMax
             /\ LonMin < metrics[j].longitude /\ metrics[j].longitude < LonMax

\* C7 witness: the fetch held a dated record outside the box next to one inside
C7_Witness ==
  /\ pc = "upload"
  /\ Len(df) > 0
  /\ Len(metrics) > 0
  /\ \E k \in DOMAIN crime_data :
       /\ crime_data[k].date_occ.kind = "ts"
       /\ crime_data[k].date_occ.val <= Now
       /\ crime_data[k].lon.kind = "num"
       /\ crime_data[k].lon.val < LonMin

\* C8: the scorer maps the relative rate to 8 / Low risk up to 0.3, 6 /
\* Medium risk up to 0.7, 4 / High risk up to 1.5 and 2 / Maximum risk
\* above, each boundary in the safer bucket; baseline 0.10 with local rate
\* 0.02 scores 8 and with local rate 0.20 scores 2.
C8_ScoreBuckets ==
  pc = "scored" =>
    LET r == res.relative_rate
    IN  /\ r.d > 0
        /\ (10 * r.n <= 3 * r.d
              => res.score = 8 /\ res.risk_level = "Low risk")
        /\ (3 * r.d < 10 * r.n /\ 10 * r.n <= 7 * r.d
              => res.score = 6 /\ res.risk_level = "Medium risk")
        /\ (7 * r.d < 10 * r.n /\ 10 * r.n <= 15 * r.d
              => res.score = 4 /\ res.risk_level = "High risk")
        /\ (15 * r.d < 10 * r.n
              => res.score = 2 /\ res.risk_level = "Maximum risk")
        /\ (arg.citywide.n > 0 => r.n * arg.local.d * arg.citywide.n
                                    = r.d * arg.local.n * arg.citywide.d)
        /\ (arg.citywide = [n |-> 10, d |-> 100] /\ arg.local = [n |-> 2, d |-> 100]
              => res.score = 8 /\ res.risk_level = "Low risk")
        /\ (arg.citywide = [n |-> 10, d |-> 100] /\ arg.local = [n |-> 20, d |-> 100]
              => res.score = 2 /\ res.risk_level = "Maximum risk")

\* C8 witness: a relative rate of exactly 0.3 scored 8
C8_Witness ==
  /\ pc = "scored"
  /\ arg.citywide = [n |-> 10, d |-> 100]
  /\ arg.local = [n |-> 3, d |-> 100]
  /\ res.score = 8

\* C9: the trend of every scored pair is increasing when recent_rate >
\* 1.2 * historical_rate, decreasing when recent_rate < 0.8 * historical_rate
\* and stable otherwise, with recent_rate = recent_count / 90 * 365 over the
\* incidents at most 90 days old (0 when there are none).
C9_TrendThresholds ==
  pc = "upload" =>
    \A j \in DOMAIN metrics :
      LET crimes == PairCrimes(metrics[j].latitude - HalfCell,
                               metrics[j].longitude - HalfCell,
                               metrics[j].metric_type)
          recent == Cardinality({k \in DOMAIN crimes : crimes[k].days_ago <= 90 * 24})
          rr == IF recent = 0 THEN [n |-> 0, d |-> 1]
                ELSE [n |-> recent * 365, d |-> 90]
          h == historical_rate(crimes)
      IN  /\ metrics[j].recent_crimes = recent
          /\ metrics[j].trend =
               IF 10 * rr.n * h.d > 12 * h.n * rr.d THEN "up"
               ELSE IF 10 * rr.n * h.d < 8 * h.n * rr.d THEN "down"
               ELSE "stable"

\* C9 witness: a pair whose recent rate is exactly 1.2 times its historical
\* rate was classified stable
C9_Witness ==
  /\ pc = "upload"
  /\ \E j \in DOMAIN metrics :
       /\ metrics[j].trend = "stable"
       /\ metrics[j].recent_crimes * 365 * 10 * days_covered(df)
            = 12 * Len(df) * 365 * 24 * 90

\* C10: the historical rate of every scored pair is
\* total_count / max(days_span, 1) * 365: its divisor is at least one day.
C10_DivisorAtLeastOneDay ==
  pc = "upload" =>
    \A j \in DOMAIN metrics :
      LET crimes == PairCrimes(metrics[j].latitude - HalfCell,
                               metrics[j].longitude - HalfCell,
                               metrics[j].metric_type)
          span == MaxSeq(crimes, "days_ago")
          divisor == IF span > 24 THEN span ELSE 24
          h == historical_rate(crimes)
      IN  h.n * divisor = Len(crimes) * 365 * 24 * h.d


\* what the claims call a valid raw record, read off the raw fields
RawValid(raw) ==
  /\ raw.date_occ.kind = "ts" /\ raw.date_occ.val <= Now
  /\ raw.lat.kind = "num" /\ LatMin <= raw.lat.val /\ raw.lat.val <= LatMax
  /\ raw.lon.kind = "num" /\ LonMin <= raw.lon.val /\ raw.lon.val <= LonMax

\* C11: every record that survives process_crime_data has a parsed timestamp
\* not later than now, parsed coordinates inside the bounding box, and a
\* category code that is not null.
C11_SurvivorsWellFormed ==
  pc = "calculate" =>
    \A j \in DOMAIN df :
      /\ df[j].date_occ # NaT /\ df[j].date_occ <= Now
      /\ df[j].lat # NaN /\ LatMin <= df[j].lat /\ df[j].lat <= LatMax
      /\ df[j].lon # NaN /\ LonMin <= df[j].lon /\ df[j].lon <= LonMax
      /\ df[j].crm_cd # NullCode

\* C12: process_crime_data keeps exactly the records whose timestamp parses
\* and is not later than now (a timestamp equal to now is kept) and whose
\* coordinates both parse and lie in the inclusive bounding box, in their
\* input order; every other record is dropped and the call still returns.
C12_RetainedIffValid ==
  pc = "calculate" =>
    LET kept == SelectSeq(crime_data, RawValid)
    IN  /\ Len(df) = Len(kept)
        /\ \A j \in DOMAIN df :
             /\ df[j].date_occ = kept[j].date_occ.val
             /\ df[j].lat = kept[j].lat.val
             /\ df[j].lon = kept[j].lon.val
             /\ df[j].crm_cd = kept[j].crm_cd

C12_Witness ==
  /\ pc = "calculate"
  /\ Len(crime_data) = 2
  /\ Len(df) = 1
  /\ df[1].date_occ = Now
  /\ df[1].lat = LatMax
  /\ df[1].lon = LonMax

\* C13: the number of input records equals the number of survivors plus the
\* three discard counts process_crime_data reports (invalid date, future
\* date, invalid coordinate).
C13_CountsAddUp ==
  pc = "calculate" =>
    Len(crime_data) = Len(df) + counters.invalid_dates
                        + counters.future_dates + counters.invalid_coords

C15_LocalAndRelativeRate ==
  \A j \in DOMAIN rate_log :
    LET e == rate_log[j]
        in_cell == SelectSeq(df, LAMBDA r : InCell(r, e.lat, e.lon))
        k == CHOOSE k \in DOMAIN MetricOrder : MetricOrder[k] = e.metric_type
    IN  /\ e.local.n = SumSeq(PairCrimes(e.lat, e.lon, e.metric_type),
                              "time_weight")
        /\ e.local.d = SumSeq(in_cell, "time_weight")
        /\ e.citywide = citywide[k]
        /\ e.relative.n = e.local.n * citywide[k].d
        /\ e.relative.d = e.local.d * citywide[k].n
        /\ e.relative.d > 0

\* a cell holding a qualifying and a non-qualifying record while a third
\* record lies in another cell: the cell total differs from the citywide one
C15_Witness ==
  /\ pc = "upload"
  /\ \E j \in DOMAIN rate_log :
       /\ rate_log[j].metric_type = "transit"
       /\ rate_log[j].local = [n |-> 1022, d |-> 2044]
       /\ rate_log[j].citywide = [n |-> 1022, d |-> 2768]

\* C16: whenever the citywide rate handed to the scorer is 0, the relative
\* rate it uses is exactly 1 (score 4), and no relative rate has a zero
\* divisor.
C16_ZeroBaselineFallback ==
  pc = "scored" =>
    /\ res.relative_rate.d > 0
    /\ arg.citywide.n = 0 =>
         /\ res.relative_rate.n = res.relative_rate.d
         /\ res.score = 4

C16_Witness ==
  /\ pc = "scored"
  /\ arg.citywide.n = 0
  /\ arg.local.n = MaxLocalRate
  /\ res.relative_rate = [n |-> 1, d |-> 1]

\* C17: no cell is processed before the citywide baseline of every metric
\* has been computed, and no step taken once the cell loops have begun
\* changes a baseline value.
C17_BaselineBeforeCells ==
  [][ /\ (metrics' # metrics \/ todo' # todo \/ pc' \in {"cells", "upload"})
           => Len(citywide) = Len(MetricOrder)
      /\ pc \in {"cells", "upload"} => citywide' = citywide ]_vars

C17_Witness ==
  /\ pc = "cells"
  /\ Len(citywide) = Len(MetricOrder)
  /\ Len(metrics) > 0
  /\ todo # {}

NoId(m) == [m EXCEPT !.id = 0]

C20_ScoreMonotone ==
  pc = "scored" =>
    \A t \in 0..MaxLocalRate :
      LET r == res.relative_rate
          other == [n |-> t, d |-> 10]
      IN  /\ (other.n * r.d <= r.n * other.d => score(other) >= res.score)
          /\ (r.n * other.d <= other.n * r.d => res.score >= score(other))

C20_Witness ==
  /\ pc = "scored"
  /\ arg.citywide = [n |-> 20, d |-> 100]
  /\ arg.local = [n |-> 14, d |-> 100]
  /\ res.score = 6

\* C21: the time weight is 1 for an incident dated now and 0.5 for one 180
\* days old, halves (up to rounding in the last place) with every further
\* 180 days, is smaller for the older of two incidents, and lies in (0, 1].
C21_TimeWeightDecay ==
  pc = "calculate" =>
    \A j \in DOMAIN df :
      /\ 0 < df[j].time_weight /\ df[j].time_weight <= WScale
      /\ df[j].days_ago = 0 => df[j].time_weight = WScale
      /\ df[j].days_ago = HalfLife => 2 * df[j].time_weight = WScale
      /\ \A k \in DOMAIN df :
           /\ df[k].days_ago > df[j].days_ago
                => df[k].time_weight < df[j].time_weight
           /\ df[k].days_ago = df[j].days_ago + HalfLife
                => /\ 2 * df[k].time_weight <= df[j].time_weight + 1
                   /\ 2 * df[k].time_weight >= df[j].time_weight - 1

C21_Witness ==
  /\ pc = "calculate"
  /\ Len(df) = 2
  /\ df[1].days_ago = 0 /\ df[1].time_weight = WScale
  /\ df[2].days_ago = HalfLife /\ 2 * df[2].time_weight = WScale

\* C22: once a request has failed on all its attempts, fetch_crime_data
\* issues no further request and raises nothing: it leaves the loop and
\* returns the records accumulated so far.
C22_FailedBatchEndsFetch ==
  failed_log # <<>> =>
    /\ pc \in {"loop_test", "fetched"}
    /\ pc = "fetched" => crime_data = all_data

\* C23: no offset is requested more than retries times in a run, and the
\* waits after failed attempts are 5 s and 10 s.
C23_RetriesBounded ==
  /\ \A o \in Range(request_log) :
       Cardinality({j \in DOMAIN request_log : request_log[j] = o}) <= retries
  /\ \A j \in DOMAIN waits : waits[j] \in {BackoffStep, 2 * BackoffStep}

\* C24: the records accumulated are always the first records of the source
\* in source order, every request asks for the offset equal to their
\* number, a well-formed short or empty batch is never followed by another
\* request, and a run that ends on a well-formed batch returns the whole
\* source, each record once.
C24_PaginationExact ==
  /\ all_data = SubSeq(source, 1, Len(all_data))
  /\ pc = "request" => offset = Len(all_data)
  /\ (pc = "request" /\ batch # Unbound /\ batch.valid)
       => Len(batch.records) = limit
  /\ (pc = "fetched" /\ batch.valid)
       => /\ crime_data = source
          /\ Len(batch.records) < limit

\* three pages fetched in order although requests had to be repeated
C24_Witness ==
  /\ pc = "fetched"
  /\ Len(source) = 2 * limit + 1
  /\ crime_data = source
  /\ batch.valid
  /\ Len(request_log) > 3
  /\ request_log[Len(request_log)] = 2 * limit

\* C25: the first job starts at once, before any run is scheduled; every
\* later job starts at least 30 days after the job before it; and at no
\* time is more than one job running.
C25_SchedulerSpacing ==
  /\ next_run # NotScheduled => Len(job_starts) >= 1
  /\ job_starts # <<>> => job_starts[1] = 0
  /\ \A j \in 2..Len(job_starts) :
       job_starts[j] - job_starts[j - 1] >= 30 * 24
  /\ running <= 1

C25_Witness ==
  /\ pc = "job"
  /\ Len(job_starts) = 3
  /\ job_starts[2] >= 30 * 24
  /\ running = 1

C27_OneRecordPerCellMetric ==
  pc = "upload" =>
    /\ \A j, k \in DOMAIN metrics :
         (/\ metrics[j].latitude = metrics[k].latitude
          /\ metrics[j].longitude = metrics[k].longitude
          /\ metrics[j].metric_type = metrics[k].metric_type) => j = k
    /\ \A j \in DOMAIN metrics :
         /\ \E lat \in lats : metrics[j].latitude = lat + 5
         /\ \E lon \in lons : metrics[j].longitude = lon + 5

\* one incident on a grid line of both axes fills four cells, each with
\* the same two metric types
C27_Witness ==
  /\ pc = "upload"
  /\ Len(df) = 1
  /\ Len(metrics) = 8
  /\ \E j, k \in DOMAIN metrics :
       /\ j # k
       /\ metrics[j].latitude = metrics[k].latitude
       /\ metrics[j].longitude = metrics[k].longitude
  /\ \E j, k \in DOMAIN metrics :
       /\ metrics[j].metric_type = metrics[k].metric_type
       /\ metrics[j].latitude # metrics[k].latitude
       /\ metrics[j].longitude # metrics[k].longitude

\* C28: the neutral fallback is never used for an emitted metric: for every
\* (cell, metric) pair the cell loops score, the citywide rate of the metric
\* is strictly positive, so the relative rate is the local rate divided by
\* the citywide rate and is strictly positive.
C28_NoFallbackForEmitted ==
  \A j \in DOMAIN rate_log :
    LET e == rate_log[j]
        qualifying == SelectSeq(df, LAMBDA r : Qualifies(r, e.metric_type))
    IN  /\ SumSeq(qualifying, "time_weight") > 0
        /\ e.citywide.n > 0
        /\ e.citywide.d > 0
        /\ e.local.n > 0
        /\ e.relative = [n |-> e.local.n * e.citywide.d,
                         d |-> e.local.d * e.citywide.n]
        /\ e.relative.n > 0
        /\ e.relative.d > 0

\* a pair whose relative rate is exactly 1 by division: its local rate
\* equals a citywide rate that is positive and below 1
C28_Witness ==
  /\ pc = "upload"
  /\ \E j \in DOMAIN rate_log :
       /\ rate_log[j].relative.n = rate_log[j].relative.d
       /\ rate_log[j].relative.n > 1
       /\ rate_log[j].citywide.n < rate_log[j].citywide.d
  /\ Len(metrics) = Len(rate_log)

\* C29: every emitted (cell, metric) pair with no qualifying incident within
\* the last 90 days has trend decreasing: its recent rate is 0 and its
\* historical rate is positive.
C29_NoRecentIncidentDecreasing ==
  pc = "upload" =>
    \A j \in DOMAIN metrics :
      LET crimes == PairCrimes(metrics[j].latitude - HalfCell,
                               metrics[j].longitude - HalfCell,
                               metrics[j].metric_type)
      IN  (\A k \in DOMAIN crimes : crimes[k].days_ago > 90 * 24)
            => /\ metrics[j].trend = "down"
               /\ metrics[j].recent_crimes = 0
               /\ metrics[j].total_crimes > 0

\* a pair of two incidents, 90.5 and 360 days old
C29_Witness ==
  /\ pc = "upload"
  /\ Len(df) = 2
  /\ \E k \in DOMAIN df : df[k].days_ago = 2172
  /\ \E k \in DOMAIN df : df[k].days_ago = 8640
  /\ Len(metrics) = 1
  /\ metrics[1].total_crimes = 2
  /\ metrics[1].recent_crimes = 0
  /\ metrics[1].trend = "down"

\* C30: the trend is never increasing when all qualifying incidents of the
\* pair occurred within the last 90 days: increasing requires the oldest
\* qualifying incident to be more than 108 days old, and a pair whose
\* incidents are all less than 72 days old is classified decreasing.
C30_TrendNeedsOldIncidents ==
  pc = "upload" =>
    \A j \in DOMAIN metrics :
      LET crimes == PairCrimes(metrics[j].latitude - HalfCell,
                               metrics[j].longitude - HalfCell,
                               metrics[j].metric_type)
          ages == {crimes[k].days_ago : k \in DOMAIN crimes}
      IN  /\ (\A a \in ages : a <= 90 * 24) => metrics[j].trend # "up"
          /\ metrics[j].trend = "up" => \E a \in ages : a > 108 * 24
          /\ (\A a \in ages : a < 72 * 24) => metrics[j].trend = "down"

\* a pair whose two incidents both occurred within the last day is
\* classified decreasing
C30_Witness ==
  /\ pc = "upload"
  /\ Len(df) = 2
  /\ \A k \in DOMAIN df : df[k].days_ago <= 12
  /\ Len(metrics) = 1
  /\ metrics[1].recent_crimes = 2
  /\ metrics[1].total_crimes = 2
  /\ metrics[1].trend = "down"

====
